---- MODULE Spec2Model ----
(***************************************************************************)
(* AFSA demo backend (src/main.py): six HTTP endpoints served by FastAPI.   *)
(* Sync endpoints run on a thread pool, so requests are modelled as         *)
(* concurrent request slots, each with its own locals; the wall clock and   *)
(* the process environment are the only state the handlers read.            *)
(*                                                                          *)
(* Python str is a TLA+ string (TLC evaluates Len, \o and SubSeq on         *)
(* strings).  Values whose Python type matters (JSON input, dict values,    *)
(* None) are tagged records [kind, v].  TLA+ strings are ASCII: the         *)
(* non-ASCII glyphs of the source are written as ASCII tags, "[OK]" for     *)
(* the check mark, "[X]" for the cross, "[!]" for the warning sign, "Rs."   *)
(* for the rupee sign and "..." for the ellipsis.                           *)
(***************************************************************************)
EXTENDS Integers, Sequences, FiniteSets, TLC

VARIABLES clock, nticks, environ, pc, ep, body, req, dbseen, now, events,
          status, response

vars == <<clock, nticks, environ, pc, ep, body, req, dbseen, now, events,
          status, response>>

\* ---------------------------------------------------------------- bounds
\* Number of requests in flight at once (worker threads serving them).
MaxReqs == 2
\* Number of seconds the wall clock may advance in one behaviour.
MaxTicks == 1
\* How far error messages and collection lists exceed the slicing limits.
MaxExtra == 1

\* ------------------------------------------------------ program constants
\* str(e)[:50]
MsgLimit == 50
\* collections[:10]
CollLimit == 10

\* ----------------------------------------------------------- tagged values
JNull == [kind |-> "null"]
JStr(s) == [kind |-> "str", v |-> s]
JNum(n) == [kind |-> "num", v |-> n]
JList(l) == [kind |-> "list", v |-> l]

\* Python's s[:n] on a str or a list.
Slice(s, n) == IF Len(s) <= n THEN s ELSE SubSeq(s, 1, n)

\* ------------------------------------------------------------ health probes
read_root == [message |-> "Hello from FastAPI Backend!"]

hello == [message |-> "Hello from the backend API!"]

\* ---------------------------------------------------------------- simulate
\* The list `base` of run_simulation.
sim_base ==
  << [type |-> "info", message |-> "Monitoring... no threats detected.", level |-> "info"],
     [type |-> "ingest", message |-> "New SMS analysed.", level |-> "info"],
     [type |-> "detect", message |-> "Suspicious UPI intent detected.", level |-> "warn"],
     [type |-> "freeze", message |-> "Auto-freeze triggered: UPI channel frozen.", level |-> "critical"],
     [type |-> "legal", message |-> "Complaint drafted for cyber cell + RBI ombudsman.", level |-> "success"],
     [type |-> "recover", message |-> "Recovery workflow initiated with bank dispute.", level |-> "success"] >>

\* SimulationEvent(t=now, **e): the four str fields of the model class.
SimulationEvent(t, e) ==
  [t |-> t, type |-> e.type, message |-> e.message, level |-> e.level]

\* One decimal digit as a character.
Digit(d) == SubSeq("0123456789", d + 1, d + 1)

\* %H, %M and %S: two digits, zero padded.
Pad2(n) == Digit(n \div 10) \o Digit(n % 10)

\* datetime.utcnow().strftime("%H:%M:%S") when the clock reads c seconds
\* since the epoch.
strftime(c) ==
  Pad2((c \div 3600) % 24) \o ":" \o Pad2((c \div 60) % 60) \o ":" \o Pad2(c % 60)

\* ---------------------------------------------------------------- timeline
\* The list `base` of get_timeline; each data is a dict of tagged values.
timeline_base ==
  << [time |-> "12:00", title |-> "Fraud request created",
      data |-> [channel |-> JStr("UPI"), amount |-> JStr("Rs.9,999"), upi_id |-> JStr("abc@bank")]],
     [time |-> "12:02", title |-> "AFSA detected mismatch",
      data |-> [pattern |-> JStr("merchant-risk-score>0.82"), device_ip |-> JStr("103.25.*")]],
     [time |-> "12:03", title |-> "UPI frozen",
      data |-> [action |-> JStr("temporary_freeze"), duration |-> JStr("30 min")]],
     [time |-> "12:05", title |-> "Complaint drafted",
      data |-> [refs |-> JList(<<JStr("Cyber Cell"), JStr("RBI Ombudsman")>>)]],
     [time |-> "12:07", title |-> "Evidence package created",
      data |-> [items |-> JList(<<JStr("SMS"), JStr("UPI handle"), JStr("IP hash")>>)]],
     [time |-> "12:10", title |-> "Recovery workflow initiated",
      data |-> [ticket |-> JStr("BK-34219"), priority |-> JStr("P1")]] >>

\* Mutant: the timeline is returned newest first.
get_timeline_reversed ==
  [items |-> [i \in 1 .. Len(timeline_base) |->
                timeline_base[Len(timeline_base) + 1 - i]]]

\* Mutant: the complaint references are a nested mapping.
get_timeline_nested ==
  [items |-> [timeline_base EXCEPT ![4].data =
                [refs |-> [kind |-> "dict",
                           v |-> [cyber_cell |-> JStr("Cyber Cell"),
                                  rbi |-> JStr("RBI Ombudsman")]]]]]

get_timeline == [items |-> timeline_base]

\* -------------------------------------------------------------- legal docs
docs ==
  << [id |-> "cyber_complaint", title |-> "Cyber Complaint Draft",
      purpose |-> "Pre-filled FIR-style complaint", actions |-> <<"preview", "download", "send">>],
     [id |-> "rbi_letter", title |-> "RBI Ombudsman Letter",
      purpose |-> "Escalation note with annexures", actions |-> <<"preview", "download", "send">>],
     [id |-> "bank_dispute", title |-> "Bank Dispute Form (Autofilled)",
      purpose |-> "Card/UPI chargeback workflow", actions |-> <<"preview", "download", "send">>],
     [id |-> "reconstruction", title |-> "Fraud Reconstruction Summary",
      purpose |-> "Timeline + evidence bundle", actions |-> <<"preview", "download", "send">>] >>

\* Mutant: the reconstruction summary cannot be sent.
legal_documents_nosend ==
  [docs |-> [docs EXCEPT ![4].actions = <<"preview", "download">>]]

legal_documents == [docs |-> docs]

\* ------------------------------------------------------------ POST body
\* The JSON values a client may send in the two fields of the body.
ScenarioInputs == {JNull, JStr("upi_scam"), JStr("phishing")}

SpeedInputs ==
  {JNull, JStr("slow"), JStr("normal"), JStr("fast"), JStr("ludicrous"),
   JNum(5), JList(<<>>)}

\* Every JSON object over the two fields, either field omitted.
Bodies ==
  { b \in UNION { [D -> ScenarioInputs \cup SpeedInputs] :
                  D \in SUBSET {"scenario", "speed"} } :
      /\ "scenario" \in DOMAIN b => b["scenario"] \in ScenarioInputs
      /\ "speed" \in DOMAIN b => b["speed"] \in SpeedInputs }

\* The empty JSON object; also the body of a GET request.
NoBody == [k \in {} |-> JNull]

\* The bodies sent while several requests are in flight.
FewBodies == {NoBody, [k \in {"speed"} |-> JStr("fast")]}

Invalid == [kind |-> "invalid"]

\* Validation of one Optional[str] field: the default when omitted, None
\* for null, the string for a string.  A number is turned into its decimal
\* string by pydantic 1 and refused by pydantic 2; the source pins neither,
\* so both outcomes are possible.  Any other JSON value is refused.
Field(b, k, default) ==
  IF k \notin DOMAIN b THEN {JStr(default)}
  ELSE CASE b[k].kind = "null" -> {JNull}
         [] b[k].kind = "str" -> {b[k]}
         [] b[k].kind = "num" -> {JStr(ToString(b[k].v)), Invalid}
         [] OTHER -> {Invalid}

\* class SimulationRequest: the possible results of parsing body b.
SimulationRequest(b) ==
  { [scenario |-> s, speed |-> p] :
      s \in Field(b, "scenario", "upi_scam"), p \in Field(b, "speed", "normal") }

Valid(q) == q.scenario # Invalid /\ q.speed # Invalid

NoReq == [scenario |-> JNull, speed |-> JNull]

\* -------------------------------------------------- data-store collaborator
\* Exceptions are [cls, msg]; str(e) is msg.
NoExc == [cls |-> "none", msg |-> ""]

\* The classes an exception of class c is an instance of.
Mro(c) ==
  CASE c = "ModuleNotFoundError" -> {"ModuleNotFoundError", "ImportError", "Exception"}
    [] c = "ImportError" -> {"ImportError", "Exception"}
    [] c = "RuntimeError" -> {"RuntimeError", "Exception"}
    [] OTHER -> {}

IsInstance(e, c) == c \in Mro(e.cls)

RECURSIVE Rep(_)
Rep(n) == IF n = 0 THEN "" ELSE "x" \o Rep(n - 1)

\* Error messages: empty, short, and around the slicing limit.
Msgs == {"", "boom"} \cup {Rep(n) : n \in MsgLimit .. MsgLimit + MaxExtra}

Excs == {[cls |-> c, msg |-> m] :
           c \in {"ModuleNotFoundError", "ImportError", "RuntimeError"}, m \in Msgs}

\* The list list_collection_names returns when it holds n collections.
Colls(n) == [i \in 1 .. n |-> "c" \o ToString(i)]

CollLists == {Colls(n) : n \in {0, 1} \cup (CollLimit .. CollLimit + MaxExtra)}

\* What the data store does during one call of /test:
\*   imp      "raise": `from database import db` raises exc;
\*            "none": it binds db = None; "db": it binds a database object
\*   has_name, name   hasattr(db, 'name') and db.name
\*   lst      "ok": list_collection_names() returns colls; "raise": raises lexc
Behaviour(imp, exc, has_name, name, lst, colls, lexc) ==
  [imp |-> imp, exc |-> exc, has_name |-> has_name, name |-> name,
   lst |-> lst, colls |-> colls, lexc |-> lexc]

NoBehaviour == Behaviour("unused", NoExc, FALSE, "", "ok", <<>>, NoExc)

DbBehaviours ==
  {Behaviour("raise", e, FALSE, "", "ok", <<>>, NoExc) : e \in Excs}
  \cup {Behaviour("none", NoExc, FALSE, "", "ok", <<>>, NoExc)}
  \cup {Behaviour("db", NoExc, h, IF h THEN "afsa" ELSE "", "ok", c, NoExc) :
          h \in BOOLEAN, c \in CollLists}
  \cup {Behaviour("db", NoExc, h, IF h THEN "afsa" ELSE "", "raise", <<>>, e) :
          h \in BOOLEAN, e \in Excs}

\* The data-store behaviours met while several requests are in flight.
FewBehaviours ==
  {Behaviour("raise", [cls |-> "ModuleNotFoundError", msg |-> "boom"], FALSE, "", "ok", <<>>, NoExc),
   Behaviour("db", NoExc, TRUE, "afsa", "raise", <<>>, [cls |-> "RuntimeError", msg |-> "boom"]),
   Behaviour("db", NoExc, TRUE, "afsa", "ok", Colls(1), NoExc)}

\* os.environ restricted to the two variables /test reads: unset (None),
\* set to the empty string, or set to a value.
Envs ==
  {[DATABASE_URL |-> u, DATABASE_NAME |-> n] :
     u \in {JNull, JStr(""), JStr("mongodb://localhost:27017")},
     n \in {JNull, JStr(""), JStr("afsa")}}

\* The environment while several requests are in flight: only the URL set.
FewEnvs ==
  {[DATABASE_URL |-> JStr("mongodb://localhost:27017"), DATABASE_NAME |-> JNull]}

\* os.getenv(k): the value, None when unset.
getenv(env, k) == env[k]

\* Truth value of None or a str.
Truthy(x) == x.kind = "str" /\ x.v # ""

\* --------------------------------------------------------------- GET /test
\* The dict `response` as first built.
InitialResponse ==
  [backend |-> JStr("[OK] Running"),
   database |-> JStr("[X] Not Available"),
   database_url |-> JNull,
   database_name |-> JNull,
   connection_status |-> JStr("Not Connected"),
   collections |-> JList(<<>>)]

\* The inner try: list the collections; any Exception is caught here.
ListCollections(resp, b) ==
  IF b.lst = "ok"
  THEN [resp |-> [resp EXCEPT !.collections = JList(Slice(b.colls, CollLimit)),
                              !.database = JStr("[OK] Connected & Working")],
        exc |-> NoExc]
  ELSE IF IsInstance(b.lexc, "Exception")
  THEN [resp |-> [resp EXCEPT !.database =
                    JStr("[!]  Connected but Error: " \o Slice(b.lexc.msg, MsgLimit))],
        exc |-> NoExc]
  ELSE [resp |-> resp, exc |-> b.lexc]

\* The body of the outer try: the import and the branches on db.
TryBody(resp, b) ==
  IF b.imp = "raise" THEN [resp |-> resp, exc |-> b.exc]
  ELSE IF b.imp = "db"
  THEN ListCollections(
         [resp EXCEPT !.database = JStr("[OK] Available"),
                      !.database_url = JStr("[OK] Configured"),
                      !.database_name =
                         IF b.has_name THEN JStr(b.name) ELSE JStr("[OK] Connected"),
                      !.connection_status = JStr("Connected")], b)
  ELSE [resp |-> [resp EXCEPT !.database = JStr("[!]  Available but not initialized")],
        exc |-> NoExc]

\* Mutant: the outer try has no `except Exception` clause.
ExceptClauses_importonly(t) ==
  IF t.exc = NoExc THEN t
  ELSE IF IsInstance(t.exc, "ImportError")
  THEN [resp |-> [t.resp EXCEPT !.database =
                    JStr("[X] Database module not found (run enable-database first)")],
        exc |-> NoExc]
  ELSE t

\* The except clauses of the outer try, in order.
ExceptClauses(t) ==
  IF t.exc = NoExc THEN t
  ELSE IF IsInstance(t.exc, "ImportError")
  THEN [resp |-> [t.resp EXCEPT !.database =
                    JStr("[X] Database module not found (run enable-database first)")],
        exc |-> NoExc]
  ELSE IF IsInstance(t.exc, "Exception")
  THEN [resp |-> [t.resp EXCEPT !.database =
                    JStr("[X] Error: " \o Slice(t.exc.msg, MsgLimit))],
        exc |-> NoExc]
  ELSE t

\* Mutant: the environment is not checked.
EnvCheck_skipped(resp, env) == resp

\* The environment check that ends the handler.
EnvCheck(resp, env) ==
  [resp EXCEPT
     !.database_url =
        IF Truthy(getenv(env, "DATABASE_URL")) THEN JStr("[OK] Set") ELSE JStr("[X] Not Set"),
     !.database_name =
        IF Truthy(getenv(env, "DATABASE_NAME")) THEN JStr("[OK] Set") ELSE JStr("[X] Not Set")]

\* test_database(): [resp, exc]; exc is the exception that leaves the
\* handler, NoExc when it returns resp.
test_database(b, env) ==
  LET h == ExceptClauses(TryBody(InitialResponse, b))
  IN  IF h.exc = NoExc
      THEN [resp |-> EnvCheck(h.resp, env), exc |-> NoExc]
      ELSE h

\* ------------------------------------------------------------ the server
ReqIds == 1 .. MaxReqs

Endpoints == {"root", "hello", "simulate", "timeline", "legal", "test"}

\* Wall-clock readings (seconds since the epoch, UTC) at which a behaviour
\* may start: around the minute, hour and day boundaries, and mid-day.
StartClocks == {0, 59, 3599, 86399, 131696}

NoResponse == JNull

InitWith(envs, clocks) ==
  /\ clock \in clocks
  /\ nticks = 0
  /\ environ \in envs
  /\ pc = [r \in ReqIds |-> "idle"]
  /\ ep = [r \in ReqIds |-> "none"]
  /\ body = [r \in ReqIds |-> NoBody]
  /\ req = [r \in ReqIds |-> NoReq]
  /\ dbseen = [r \in ReqIds |-> NoBehaviour]
  /\ now = [r \in ReqIds |-> ""]
  /\ events = [r \in ReqIds |-> <<>>]
  /\ status = [r \in ReqIds |-> 0]
  /\ response = [r \in ReqIds |-> NoResponse]

\* The wall clock advances by a second.
Tick ==
  /\ nticks < MaxTicks
  /\ clock' = clock + 1
  /\ nticks' = nticks + 1
  /\ UNCHANGED <<environ, pc, ep, body, req, dbseen, now, events, status, response>>

\* A request is answered: its response has been sent.
Answered(r) == pc[r] \in {"done", "rejected", "fault"}

\* The framework routes a request to endpoint e on worker r, which is idle
\* or has answered its previous request (whose locals are dropped).  The
\* body of a POST to /api/simulate is parsed into a SimulationRequest; a
\* body that does not validate is answered 422 and the handler never runs.
Receive(r, e, b) ==
  /\ pc[r] = "idle" \/ Answered(r)
  /\ ep' = [ep EXCEPT ![r] = e]
  /\ body' = [body EXCEPT ![r] = IF e = "simulate" THEN b ELSE NoBody]
  /\ dbseen' = [dbseen EXCEPT ![r] = NoBehaviour]
  /\ now' = [now EXCEPT ![r] = ""]
  /\ events' = [events EXCEPT ![r] = <<>>]
  /\ IF e = "simulate"
     THEN \E q \in SimulationRequest(b) :
            IF Valid(q)
            THEN /\ req' = [req EXCEPT ![r] = q]
                 /\ pc' = [pc EXCEPT ![r] = "handler"]
                 /\ status' = [status EXCEPT ![r] = 0]
                 /\ response' = [response EXCEPT ![r] = NoResponse]
            ELSE /\ req' = [req EXCEPT ![r] = NoReq]
                 /\ pc' = [pc EXCEPT ![r] = "rejected"]
                 /\ status' = [status EXCEPT ![r] = 422]
                 /\ response' = [response EXCEPT ![r] = [detail |-> "validation error"]]
     ELSE /\ req' = [req EXCEPT ![r] = NoReq]
          /\ pc' = [pc EXCEPT ![r] = "handler"]
          /\ status' = [status EXCEPT ![r] = 0]
          /\ response' = [response EXCEPT ![r] = NoResponse]
  /\ UNCHANGED <<clock, nticks, environ>>

\* A handler returns payload: the request is answered 200.
Return(r, payload) ==
  /\ pc' = [pc EXCEPT ![r] = "done"]
  /\ status' = [status EXCEPT ![r] = 200]
  /\ response' = [response EXCEPT ![r] = payload]

ReadRoot(r) ==
  /\ pc[r] = "handler" /\ ep[r] = "root"
  /\ Return(r, read_root)
  /\ UNCHANGED <<clock, nticks, environ, ep, body, req, dbseen, now, events>>

Hello(r) ==
  /\ pc[r] = "handler" /\ ep[r] = "hello"
  /\ Return(r, hello)
  /\ UNCHANGED <<clock, nticks, environ, ep, body, req, dbseen, now, events>>

\* run_simulation, first statement: now = datetime.utcnow().strftime(...)
RunSimulationNow(r) ==
  /\ pc[r] = "handler" /\ ep[r] = "simulate"
  /\ now' = [now EXCEPT ![r] = strftime(clock)]
  /\ pc' = [pc EXCEPT ![r] = "build"]
  /\ UNCHANGED <<clock, nticks, environ, ep, body, req, dbseen, events, status, response>>

\* Mutant: every event is stamped with its own reading of the clock.
RunSimulationEvent_stamped(r) ==
  /\ pc[r] = "build" /\ Len(events[r]) < Len(sim_base)
  /\ events' = [events EXCEPT ![r] =
                  Append(@, SimulationEvent(strftime(clock), sim_base[Len(@) + 1]))]
  /\ UNCHANGED <<clock, nticks, environ, pc, ep, body, req, dbseen, now, status, response>>

\* Mutant: speed "fast" plays the events backwards.
RunSimulationEvent_byspeed(r) ==
  /\ pc[r] = "build" /\ Len(events[r]) < Len(sim_base)
  /\ events' = [events EXCEPT ![r] =
                  Append(@, SimulationEvent(now[r],
                    sim_base[IF req[r].speed = JStr("fast")
                             THEN Len(sim_base) - Len(@)
                             ELSE Len(@) + 1]))]
  /\ UNCHANGED <<clock, nticks, environ, pc, ep, body, req, dbseen, now, status, response>>

\* run_simulation, one iteration of [SimulationEvent(t=now, **e) for e in base]
RunSimulationEvent(r) ==
  /\ pc[r] = "build" /\ Len(events[r]) < Len(sim_base)
  /\ events' = [events EXCEPT ![r] =
                  Append(@, SimulationEvent(now[r], sim_base[Len(@) + 1]))]
  /\ UNCHANGED <<clock, nticks, environ, pc, ep, body, req, dbseen, now, status, response>>

\* run_simulation: return events
RunSimulationReturn(r) ==
  /\ pc[r] = "build" /\ Len(events[r]) = Len(sim_base)
  /\ Return(r, events[r])
  /\ UNCHANGED <<clock, nticks, environ, ep, body, req, dbseen, now, events>>

\* Mutant: the first entry of the timeline carries the time of the call.
GetTimeline_stamped(r) ==
  /\ pc[r] = "handler" /\ ep[r] = "timeline"
  /\ Return(r, [items |-> [timeline_base EXCEPT ![1].time = strftime(clock)]])
  /\ UNCHANGED <<clock, nticks, environ, ep, body, req, dbseen, now, events>>

GetTimeline(r) ==
  /\ pc[r] = "handler" /\ ep[r] = "timeline"
  /\ Return(r, get_timeline)
  /\ UNCHANGED <<clock, nticks, environ, ep, body, req, dbseen, now, events>>

LegalDocuments(r) ==
  /\ pc[r] = "handler" /\ ep[r] = "legal"
  /\ Return(r, legal_documents)
  /\ UNCHANGED <<clock, nticks, environ, ep, body, req, dbseen, now, events>>

\* Mutant: /test exports the name of the database it found to the
\* process environment.
TestDatabase_setenv(r, b) ==
  /\ pc[r] = "handler" /\ ep[r] = "test"
  /\ dbseen' = [dbseen EXCEPT ![r] = b]
  /\ Return(r, test_database(b, environ).resp)
  /\ environ' = IF b.imp = "db" /\ b.has_name
                THEN [environ EXCEPT !.DATABASE_NAME = JStr(b.name)]
                ELSE environ
  /\ UNCHANGED <<clock, nticks, ep, body, req, now, events>>

\* GET /test while the data store behaves as b.  An exception that leaves
\* the handler is answered 500 by the framework.
TestDatabase(r, b) ==
  /\ pc[r] = "handler" /\ ep[r] = "test"
  /\ dbseen' = [dbseen EXCEPT ![r] = b]
  /\ LET out == test_database(b, environ)
     IN  IF out.exc = NoExc
         THEN Return(r, out.resp)
         ELSE /\ pc' = [pc EXCEPT ![r] = "fault"]
              /\ status' = [status EXCEPT ![r] = 500]
              /\ response' = [response EXCEPT ![r] = [detail |-> "Internal Server Error"]]
  /\ UNCHANGED <<clock, nticks, environ, ep, body, req, now, events>>

\* The steps of request r, with bodies drawn from bs and data-store
\* behaviours from dbs.
Serve(r, bs, dbs) ==
  \/ \E e \in Endpoints \ {"simulate"} : Receive(r, e, NoBody)
  \/ \E b \in bs : Receive(r, "simulate", b)
  \/ ReadRoot(r)
  \/ Hello(r)
  \/ RunSimulationNow(r)
  \/ RunSimulationEvent(r)
  \/ RunSimulationReturn(r)
  \/ GetTimeline(r)
  \/ LegalDocuments(r)
  \/ \E b \in dbs : TestDatabase(r, b)

\* Spec: MaxReqs requests in flight at once, a few inputs.
Init == InitWith(FewEnvs, {86399})

Next == Tick \/ \E r \in ReqIds : Serve(r, FewBodies, FewBehaviours)

Spec == Init /\ [][Next]_vars

\* SpecOne: one request, every input.
InitOne == InitWith(Envs, StartClocks)

NextOne == Tick \/ Serve(1, Bodies, DbBehaviours)

SpecOne == InitOne /\ [][NextOne]_vars

\* ================================================================ claims
SimTypes == <<"info", "ingest", "detect", "freeze", "legal", "recover">>

SimLevels == <<"info", "info", "warn", "critical", "success", "success">>

ValidSpeeds == {JStr("slow"), JStr("normal"), JStr("fast")}

\* C1: a POST /api/simulate whose speed is a string outside
\* {slow, normal, fast} is answered with a validation error and no event
\* list; it never succeeds.
C1_BadSpeedRejected ==
  \A r \in ReqIds :
    ( /\ ep[r] = "simulate" /\ Answered(r)
      /\ "speed" \in DOMAIN body[r]
      /\ body[r]["speed"].kind = "str"
      /\ body[r]["speed"] \notin ValidSpeeds )
    => /\ pc[r] = "rejected"
       /\ status[r] = 422
       /\ events[r] = <<>>

\* C2: every accepted simulate request is answered with exactly 6 events
\* whose types and levels are the fixed sequences, whatever scenario and
\* speed were sent or omitted.
C2_FixedEvents ==
  \A r \in ReqIds :
    (ep[r] = "simulate" /\ pc[r] = "done")
    => /\ status[r] = 200
       /\ Len(response[r]) = 6
       /\ [i \in 1 .. Len(response[r]) |-> response[r][i].type] = SimTypes
       /\ [i \in 1 .. Len(response[r]) |-> response[r][i].level] = SimLevels

\* A request with speed "fast" and no scenario has been answered with events.
C2_Witness ==
  \E r \in ReqIds :
    /\ ep[r] = "simulate" /\ pc[r] = "done"
    /\ DOMAIN body[r] = {"speed"} /\ body[r]["speed"] = JStr("fast")
    /\ Len(response[r]) = 6

\* C3: all events of one simulate response carry the same t, the one
\* reading of the wall clock taken when the handler started, however the
\* clock advances and whatever other requests are served meanwhile.
C3_SharedTimestamp ==
  \A r \in ReqIds :
    (ep[r] = "simulate" /\ pc[r] \in {"build", "done"})
    => /\ \A i \in 1 .. Len(events[r]) : events[r][i].t = now[r]
       /\ now[r] \in {strftime(c) : c \in (clock - nticks) .. clock}
       /\ pc[r] = "done" =>
            /\ Len(response[r]) = 6
            /\ \A i \in 1 .. 6 : response[r][i].t = now[r]

\* Two simulate responses that differ in t, one of them built while the
\* clock had already moved on.
C3_Witness ==
  \E r1, r2 \in ReqIds :
    /\ ep[r1] = "simulate" /\ pc[r1] = "done"
    /\ ep[r2] = "simulate" /\ pc[r2] = "done"
    /\ response[r1][1].t # response[r2][1].t
    /\ response[r1][6].t # strftime(clock)

TestKeys ==
  {"backend", "database", "database_url", "database_name",
   "connection_status", "collections"}

\* The data store failed during the /test call of request r.
Outage(r) == dbseen[r].imp = "raise" \/ (dbseen[r].imp = "db" /\ dbseen[r].lst = "raise")

\* C4: whatever the data store does, /test is answered 200 with exactly the
\* six keys; database is a string, and a data-store error shows in no other
\* field.
C4_TestNeverRaises ==
  \A r \in ReqIds :
    (ep[r] = "test" /\ pc[r] \notin {"idle", "handler"})
    => /\ pc[r] = "done" /\ status[r] = 200
       /\ DOMAIN response[r] = TestKeys
       /\ response[r].database.kind = "str"
       /\ response[r].backend = JStr("[OK] Running")
       /\ response[r].database_url \in {JStr("[OK] Set"), JStr("[X] Not Set")}
       /\ response[r].database_name \in {JStr("[OK] Set"), JStr("[X] Not Set")}
       /\ response[r].connection_status \in {JStr("Connected"), JStr("Not Connected")}
       /\ response[r].collections.kind = "list"
       /\ Outage(r) => response[r].collections = JList(<<>>)

\* /test has been answered although the import raised an error that is no
\* ImportError, with a message longer than the limit.
C4_Witness ==
  \E r \in ReqIds :
    /\ ep[r] = "test" /\ pc[r] = "done"
    /\ dbseen[r].imp = "raise" /\ dbseen[r].exc.cls = "RuntimeError"
    /\ Len(dbseen[r].exc.msg) > MsgLimit
    /\ response[r].database = JStr("[X] Error: " \o Rep(MsgLimit))

\* C5: when the database module cannot be imported and neither variable is
\* set, /test is answered 200 with database_url and database_name
\* "[X] Not Set".
C5_NotConfigured ==
  \A r \in ReqIds :
    ( /\ ep[r] = "test" /\ pc[r] \notin {"idle", "handler"}
      /\ dbseen[r].imp = "raise" /\ dbseen[r].exc.cls = "ModuleNotFoundError"
      /\ environ["DATABASE_URL"] = JNull /\ environ["DATABASE_NAME"] = JNull )
    => /\ pc[r] = "done" /\ status[r] = 200
       /\ response[r].database_url = JStr("[X] Not Set")
       /\ response[r].database_name = JStr("[X] Not Set")

C5_Witness ==
  \E r \in ReqIds :
    /\ ep[r] = "test" /\ pc[r] = "done"
    /\ dbseen[r].imp = "raise" /\ dbseen[r].exc.cls = "ModuleNotFoundError"
    /\ environ["DATABASE_URL"] = JNull /\ environ["DATABASE_NAME"] = JNull
    /\ response[r].database =
         JStr("[X] Database module not found (run enable-database first)")

\* The locals of request r.
Locals(r) ==
  <<pc[r], ep[r], body[r], req[r], dbseen[r], now[r], events[r], status[r], response[r]>>

\* The response /, /api/hello, /api/timeline and /api/legal-docs give in a
\* process in which /test was never called.
Untouched(e) ==
  CASE e = "root" -> read_root
    [] e = "hello" -> hello
    [] e = "timeline" -> get_timeline
    [] e = "legal" -> legal_documents

\* The events of a simulate response without their t.
WithoutT(evs) ==
  [i \in 1 .. Len(evs) |->
     [type |-> evs[i].type, message |-> evs[i].message, level |-> evs[i].level]]

\* C6: no step of any endpoint writes the environment or the locals of
\* another request, an answered response is not changed by other requests,
\* and after any interleaving, /test outages included, the other endpoints
\* answer what they answer when /test is never called.
C6_Isolation ==
  [][ /\ environ' = environ
      /\ \E r \in ReqIds : \A s \in ReqIds \ {r} : Locals(s)' = Locals(s)
      /\ \A r \in ReqIds :
           (ep'[r] \in {"root", "hello", "timeline", "legal"} /\ pc'[r] = "done")
           => (status'[r] = 200 /\ response'[r] = Untouched(ep'[r]))
      /\ \A r \in ReqIds :
           (ep'[r] = "simulate" /\ pc'[r] = "done")
           => (status'[r] = 200 /\ WithoutT(response'[r]) = sim_base)
    ]_vars

\* A /test call met an outage and another endpoint has answered beside it.
C6_Witness ==
  \E r1, r2 \in ReqIds :
    /\ ep[r1] = "test" /\ pc[r1] = "done" /\ Outage(r1)
    /\ ep[r2] = "timeline" /\ pc[r2] = "done"

\* C7: any two answered calls of /api/timeline, and any two of
\* /api/legal-docs, carry equal payloads, whatever was served in between.
C7_Idempotent ==
  \A r1, r2 \in ReqIds :
    ( /\ ep[r1] = ep[r2] /\ ep[r1] \in {"timeline", "legal"}
      /\ pc[r1] = "done" /\ pc[r2] = "done" )
    => response[r1] = response[r2]

\* Two workers hold answered calls of /api/timeline and the clock has moved
\* since the process started.
C7_Witness ==
  \E r1, r2 \in ReqIds :
    /\ r1 # r2 /\ nticks > 0
    /\ ep[r1] = "timeline" /\ pc[r1] = "done"
    /\ ep[r2] = "timeline" /\ pc[r2] = "done"

\* C8: /api/timeline answers {"items": ...} with exactly 6 items, the first
\* titled "Fraud request created" and the last "Recovery workflow initiated".
C8_TimelineShape ==
  \A r \in ReqIds :
    (ep[r] = "timeline" /\ pc[r] = "done")
    => /\ DOMAIN response[r] = {"items"}
       /\ Len(response[r].items) = 6
       /\ response[r].items[1].title = "Fraud request created"
       /\ response[r].items[6].title = "Recovery workflow initiated"
       /\ [i \in 1 .. 6 |-> response[r].items[i].time] =
            <<"12:00", "12:02", "12:03", "12:05", "12:07", "12:10">>

C8_Witness ==
  \E r \in ReqIds :
    /\ ep[r] = "timeline" /\ pc[r] = "done" /\ status[r] = 200
    /\ Len(response[r].items) = 6

\* C9: /api/legal-docs answers {"docs": ...} with exactly 4 documents, each
\* with actions [preview, download, send].
C9_LegalDocs ==
  \A r \in ReqIds :
    (ep[r] = "legal" /\ pc[r] = "done")
    => /\ DOMAIN response[r] = {"docs"}
       /\ Len(response[r].docs) = 4
       /\ \A i \in 1 .. Len(response[r].docs) :
            response[r].docs[i].actions = <<"preview", "download", "send">>

C9_Witness ==
  \E r \in ReqIds :
    /\ ep[r] = "legal" /\ pc[r] = "done" /\ status[r] = 200
    /\ Len(response[r].docs) = 4

\* The data values of every item of an answered timeline satisfy Ok, and
\* the keys are strings.
DataValues(Ok(_)) ==
  \A r \in ReqIds :
    (ep[r] = "timeline" /\ pc[r] = "done")
    => \A i \in 1 .. Len(response[r].items) :
         \A k \in DOMAIN response[r].items[i].data :
           k \in STRING /\ Ok(response[r].items[i].data[k])

IsScalar(x) == x.kind \in {"str", "num"}

IsScalarOrStrings(x) ==
  \/ x.kind \in {"str", "num"}
  \/ x.kind = "list" /\ \A j \in 1 .. Len(x.v) : x.v[j].kind = "str"

\* C10 as claimed: every data value of a timeline item is a string or a
\* number.
C10_ScalarData == DataValues(IsScalar)

\* C10 as amended: every data value of a timeline item is a string, a
\* number or a list of strings; none is a nested mapping.
C10_ScalarOrListData == DataValues(IsScalarOrStrings)

\* An answered timeline whose fourth item holds a list.
C10_Witness ==
  \E r \in ReqIds :
    /\ ep[r] = "timeline" /\ pc[r] = "done"
    /\ response[r].items[4].data["refs"].kind = "list"

====
